---- MODULE Spec2Model ----
(***************************************************************************)
(* A model of clients/pkg/promtail/client/client.go: the promtail client   *)
(* that batches log entries per tenant and pushes them to Loki, directly   *)
(* or through a write-ahead log.                                           *)
(*                                                                         *)
(* Time is counted in units of 10ms (the minimum max-wait check period).   *)
(***************************************************************************)
EXTENDS Integers, Sequences, FiniteSets, TLC

(***************************************************************************)
(* Bounds of the model.                                                    *)
(***************************************************************************)
MaxEntries == 2
MaxLine == 2
MaxRetries == 2
MaxSegments == 2
MaxRecords == 2
MaxSamples == 2
MaxSampleEntries == 2

(***************************************************************************)
(* Program constants and configuration values.                             *)
(***************************************************************************)
ReservedLabelTenantID == "__tenant_id__"
MinWaitCheckFrequency == 1
BatchWait == 1
BatchSizes == {1, 3}
CfgTenantIDs == {""}
RouteTenantIDs == {"", "s"}
ExternalLabels == ("host" :> "h")
Statuses == {200, 400, 429, 500, -1}
ValidLabelNames == {"job", "host", ReservedLabelTenantID}
SeriesLabelSets == { ("job" :> "x") }
Refs == {1}
WALEntryLabelSets == { ("job" :> "x") }
EntryLabelSets == { ("job" :> "x"), ("job" :> "x") @@ (ReservedLabelTenantID :> "a") }

VARIABLES
  cfg,          \* the client's Config: WAL.Enabled, BatchSize, TenantID
  endpoint,     \* the statuses the endpoint may answer (-1: no response)
  producers,    \* the label sets the producers put on their entries
  entriesOpen,  \* c.entries is not yet closed
  readOpen,     \* c.wal.readChannel is not yet closed
  nrecv,        \* number of entries received from c.entries so far
  ctxCancelled, \* c.ctx has been cancelled
  stop,         \* the thread calling Stop / StopNow
  wgDone,       \* c.wg has been released by runSendSide
  disp,         \* position of the runSendSide goroutine
  batches,      \* runSendSide's map tenantID -> open batch
  tickPending,  \* a tick is waiting in maxWaitCheck.C (capacity 1)
  tickElapsed,  \* time since the ticker last fired
  send,         \* per thread: the sendBatch call in progress
  sent,         \* history: every batch handed to sendBatch, in order
  addFailed,    \* history: some batch.add returned an error
  writer,       \* position of the receiveAndWriteToWAL goroutine
  walLog,       \* per tenant: the entries written to its WAL, in order
  tenantWALs,   \* c.wal.tenantWALs: the tenants that have a WAL handle
  watchers,     \* c.wal.watchers: tenant -> the watcher registered for it
  cons,         \* per watcher: its clientConsumer and what it has done
  rp            \* position and locals of replayWAL

cfgVars  == <<cfg, endpoint, producers>>
stopVars == <<entriesOpen, readOpen, ctxCancelled, stop, wgDone>>
dispVars == <<disp, batches, nrecv, addFailed>>
timeVars == <<tickPending, tickElapsed>>
sendVars == <<send, sent>>
walVars  == <<writer, walLog, tenantWALs, watchers, cons>>
vars == <<cfg, endpoint, producers, entriesOpen, readOpen, nrecv, ctxCancelled, stop, wgDone, disp, batches,
          tickPending, tickElapsed, send, sent, addFailed, writer, walLog, tenantWALs,
          watchers, cons, rp>>

(***************************************************************************)
(* Threads that call sendBatch.                                            *)
(***************************************************************************)
MaxGen == 2
TenantIDs == CfgTenantIDs \cup RouteTenantIDs \cup
             {l[ReservedLabelTenantID] : l \in {m \in EntryLabelSets : ReservedLabelTenantID \in DOMAIN m}}
DispT == <<"disp", "", 0>>
ReplayT == <<"rp", "", 0>>
ConsIds == {<<"cons", t, g>> : t \in TenantIDs, g \in 1..MaxGen}
Threads == {DispT} \cup ConsIds
AllThreads == Threads \cup {ReplayT}

(***************************************************************************)
(* Labels, tenant resolution.                                              *)
(***************************************************************************)
Merge(ext, l) ==
  [n \in (DOMAIN ext) \cup (DOMAIN l) |-> IF n \in DOMAIN l THEN l[n] ELSE ext[n]]

\* getTenantID without the look at the reserved label.
getTenantIDStatic(labels) == cfg.tenantID

getTenantID(labels) ==
  IF ReservedLabelTenantID \in DOMAIN labels THEN labels[ReservedLabelTenantID]
  ELSE IF cfg.tenantID # "" THEN cfg.tenantID
  ELSE ""

processEntry(e) ==
  IF DOMAIN ExternalLabels # {} THEN [e EXCEPT !.labels = Merge(ExternalLabels, e.labels)]
  ELSE e

(***************************************************************************)
(* The batch: the entries added so far, in order, and its age.             *)
(***************************************************************************)
RECURSIVE SumSz(_)
SumSz(s) == IF s = <<>> THEN 0 ELSE Head(s).sz + SumSz(Tail(s))

newBatch == [entries |-> <<>>, age |-> 0]
sizeBytes(b) == SumSz(b.entries)
sizeBytesAfter(b, e) == sizeBytes(b) + e.sz
replay(b, e) == [b EXCEPT !.entries = Append(@, e)]
add(b, e, ok) == IF ok THEN [b EXCEPT !.entries = Append(@, e)] ELSE b
Ids(s) == {s[i].id : i \in DOMAIN s}

MaxWaitCheckFrequency ==
  IF BatchWait \div 10 < MinWaitCheckFrequency THEN MinWaitCheckFrequency
  ELSE BatchWait \div 10
AgeCap == BatchWait + MaxWaitCheckFrequency + 1

(***************************************************************************)
(* sendBatch.                                                              *)
(***************************************************************************)
NoSend == [pc |-> "none", tenant |-> "", batch |-> <<>>, resps |-> <<>>,
           numRetries |-> 0, retried |-> 0, err |-> "nil", encoded |-> 0, counted |-> <<>>,
           startedCancelled |-> FALSE]

\* A call of sendBatch(tenantID, batch) by thread th.
SendBatchCall(th, tenantID, b) ==
  /\ send' = [send EXCEPT ![th] = [NoSend EXCEPT !.pc = "encode", !.tenant = tenantID,
                                      !.batch = b.entries,
                                      !.startedCancelled = ctxCancelled]]
  /\ sent' = Append(sent, [by |-> th, tenant |-> tenantID, entries |-> b.entries])

\* c.send: the error it returns with the status.
SendErr(status) == status = -1 \/ status \div 100 # 2

\* The retry test of the loop: only 429s, 500s and connection-level errors.
Retryable(status) == ~(status > 0 /\ status # 429 /\ status \div 100 # 5)

\* backoff.Ongoing() without the test of the context.
OngoingWithoutContext(numRetries) == MaxRetries = 0 \/ numRetries < MaxRetries

\* backoff.Ongoing() allowing one retry more than the configured maximum.
OngoingOneMore(numRetries) == ~ctxCancelled /\ (MaxRetries = 0 \/ numRetries <= MaxRetries)

\* backoff.Ongoing()
Ongoing(numRetries) == ~ctxCancelled /\ (MaxRetries = 0 \/ numRetries < MaxRetries)

\* What the sent or the dropped counters are increased by for the batch.
Count(kind, batch) == [kind |-> kind, bytes |-> SumSz(batch), entries |-> Len(batch)]

\* The end of sendBatch after a failure, without the dropped counters.
FinalFailureUncounted(s) == [s EXCEPT !.pc = "ret", !.err = "http"]

\* if err != nil after the loop: the dropped counters, and the error returned.
FinalFailure(s) ==
  [s EXCEPT !.pc = "ret", !.err = "http", !.counted = Append(@, Count("dropped", s.batch))]

\* batch.encode() and the encodedBytes counter.
Encode(th) ==
  /\ send[th].pc = "encode"
  /\ \E ok \in BOOLEAN :
       send' = [send EXCEPT ![th] =
                  IF ok THEN [@ EXCEPT !.pc = "attempt", !.encoded = SumSz(send[th].batch)]
                  ELSE [@ EXCEPT !.pc = "ret", !.err = "encode"]]
  /\ UNCHANGED <<cfgVars, stopVars, dispVars, timeVars, sent, walVars, rp>>

\* parser.ParseMetric(s.Labels) for every stream of the batch: the label string
\* of a stream parses when its label names are valid metric label names.
ParseMetricOK(batch) ==
  \A i \in DOMAIN batch : (DOMAIN batch[i].labels) \subseteq ValidLabelNames

\* One pass of the loop body up to backoff.Wait(): c.send and its classification.
Attempt(th) ==
  /\ send[th].pc = "attempt"
  /\ \E status \in endpoint :
       LET s  == [send[th] EXCEPT !.resps = Append(@, status)] IN
       send' = [send EXCEPT ![th] =
             IF ~SendErr(status)
               THEN [s EXCEPT !.pc = "ret", !.counted = Append(@, Count("sent", s.batch)),
                              !.err = IF ParseMetricOK(s.batch) THEN "nil" ELSE "parse"]
             ELSE IF ~Retryable(status) THEN FinalFailure(s)
             ELSE [s EXCEPT !.pc = "backoff", !.retried = @ + 1]]
  /\ UNCHANGED <<cfgVars, stopVars, dispVars, timeVars, sent, walVars, rp>>

\* backoff.Wait() returning, and the Ongoing test after it.
BackoffWait(th) ==
  /\ send[th].pc = "backoff"
  /\ LET s == [send[th] EXCEPT !.numRetries = @ + 1] IN
       send' = [send EXCEPT ![th] =
             IF Ongoing(s.numRetries) THEN [s EXCEPT !.pc = "attempt"]
             ELSE FinalFailure(s)]
  /\ UNCHANGED <<cfgVars, stopVars, dispVars, timeVars, sent, walVars, rp>>

Returned(th) == send[th].pc = "ret"
ClearSend(th) == [send EXCEPT ![th] = NoSend]


(***************************************************************************)
(* runSendSide: the dispatcher loop.                                       *)
(***************************************************************************)
\* The channel runSendSide reads: c.entries, or the WAL's read channel.
DispChanOpen == IF cfg.wal THEN readOpen ELSE entriesOpen

HasBatch(tenantID) == tenantID \in DOMAIN batches
PutBatch(bs, tenantID, b) ==
  [t \in (DOMAIN bs) \cup {tenantID} |-> IF t = tenantID THEN b ELSE bs[t]]
\* The max-wait check without its delete(batches, tenantID).
KeepBatch(bs, tenantID) == bs
DeleteBatch(bs, tenantID) == [t \in (DOMAIN bs) \ {tenantID} |-> bs[t]]

\* The size test made before an entry joins an existing batch.
Overflows(b, e) == sizeBytesAfter(b, e) > cfg.batchSize
\* The age test of the max-wait check.
MaxWaitReached(b) == ~(b.age < BatchWait)

\* case e, ok := <-entries with ok: an entry arrives. Nothing ever sends on the
\* WAL's read channel, so entries arrive in direct mode only.
DispRecv ==
  /\ disp.pc = "select"
  /\ ~cfg.wal
  /\ entriesOpen
  /\ nrecv < MaxEntries
  /\ \E labels \in producers, sz \in 1..MaxLine, addOK \in BOOLEAN :
       LET e == processEntry([id |-> nrecv + 1, labels |-> labels, sz |-> sz])
           tenantID == getTenantID(e.labels)
       IN
       /\ nrecv' = nrecv + 1
       /\ IF ~HasBatch(tenantID)
            THEN /\ batches' = PutBatch(batches, tenantID, add(newBatch, e, addOK))
                 /\ addFailed' = (addFailed \/ ~addOK)
                 /\ UNCHANGED <<disp, sendVars>>
          ELSE IF Overflows(batches[tenantID], e)
            THEN /\ addOK
                 /\ SendBatchCall(DispT, tenantID, batches[tenantID])
                 /\ disp' = [disp EXCEPT !.pc = "overflow", !.cur = tenantID, !.pend = <<e>>]
                 /\ UNCHANGED <<batches, addFailed>>
          ELSE IF addOK
            THEN /\ batches' = PutBatch(batches, tenantID, add(batches[tenantID], e, TRUE))
                 /\ UNCHANGED <<disp, sendVars, addFailed>>
          ELSE   \* batch add err: droppedEntries.Inc() and the loop returns
                 /\ addFailed' = TRUE
                 /\ disp' = [disp EXCEPT !.pc = "final", !.todo = DOMAIN batches,
                                         !.dropped = @ + 1]
                 /\ UNCHANGED <<batches, sendVars>>
  /\ UNCHANGED <<cfgVars, stopVars, timeVars, walVars, rp>>

\* The overflow branch adding the entry to the batch it has just sent.
DispOverflowRetSameBatch ==
  /\ disp.pc = "overflow"
  /\ Returned(DispT)
  /\ batches' = PutBatch(batches, disp.cur, add(batches[disp.cur], disp.pend[1], TRUE))
  /\ disp' = [disp EXCEPT !.pc = "select", !.pend = <<>>]
  /\ send' = ClearSend(DispT)
  /\ UNCHANGED <<cfgVars, stopVars, timeVars, nrecv, addFailed, sent, walVars, rp>>

\* sendBatch of the full batch has returned: the entry opens the new batch.
DispOverflowRet ==
  /\ disp.pc = "overflow"
  /\ Returned(DispT)
  /\ \E addOK \in BOOLEAN :
       /\ batches' = PutBatch(batches, disp.cur, add(newBatch, disp.pend[1], addOK))
       /\ addFailed' = (addFailed \/ ~addOK)
  /\ disp' = [disp EXCEPT !.pc = "select", !.pend = <<>>]
  /\ send' = ClearSend(DispT)
  /\ UNCHANGED <<cfgVars, stopVars, timeVars, nrecv, sent, walVars, rp>>

\* case <-maxWaitCheck.C
DispTick ==
  /\ disp.pc = "select"
  /\ tickPending
  /\ tickPending' = FALSE
  /\ disp' = [disp EXCEPT !.pc = "tick", !.todo = DOMAIN batches]
  /\ UNCHANGED <<cfgVars, stopVars, tickElapsed, batches, nrecv, addFailed, sendVars,
                 walVars, rp>>

\* One iteration of the range over batches in the max-wait check.
DispTickNext ==
  /\ disp.pc = "tick"
  /\ \/ /\ disp.todo = {}
        /\ disp' = [disp EXCEPT !.pc = "select"]
        /\ UNCHANGED sendVars
     \/ \E tenantID \in disp.todo :
          IF ~MaxWaitReached(batches[tenantID])
            THEN /\ disp' = [disp EXCEPT !.todo = @ \ {tenantID}]
                 /\ UNCHANGED sendVars
            ELSE /\ SendBatchCall(DispT, tenantID, batches[tenantID])
                 /\ disp' = [disp EXCEPT !.pc = "ticksend", !.cur = tenantID,
                                         !.todo = @ \ {tenantID}]
  /\ UNCHANGED <<cfgVars, stopVars, timeVars, batches, nrecv, addFailed, walVars, rp>>

\* sendBatch has returned in the max-wait check: delete(batches, tenantID).
DispTickRet ==
  /\ disp.pc = "ticksend"
  /\ Returned(DispT)
  /\ batches' = DeleteBatch(batches, disp.cur)
  /\ disp' = [disp EXCEPT !.pc = "tick"]
  /\ send' = ClearSend(DispT)
  /\ UNCHANGED <<cfgVars, stopVars, timeVars, nrecv, addFailed, sent, walVars, rp>>

\* case e, ok := <-entries with !ok: the channel is closed, the loop returns.
DispClosed ==
  /\ disp.pc = "select"
  /\ ~DispChanOpen
  /\ disp' = [disp EXCEPT !.pc = "final", !.todo = DOMAIN batches]
  /\ UNCHANGED <<cfgVars, stopVars, timeVars, batches, nrecv, addFailed, sendVars,
                 walVars, rp>>

\* The deferred function: send all pending batches, then c.wg.Done().
DispFinalNext ==
  /\ disp.pc = "final"
  /\ \/ /\ disp.todo = {}
        /\ disp' = [disp EXCEPT !.pc = "done"]
        /\ wgDone' = TRUE
        /\ UNCHANGED sendVars
     \/ /\ \E tenantID \in disp.todo :
             /\ SendBatchCall(DispT, tenantID, batches[tenantID])
             /\ disp' = [disp EXCEPT !.pc = "finalsend", !.cur = tenantID,
                                     !.todo = @ \ {tenantID}]
        /\ UNCHANGED wgDone
  /\ UNCHANGED <<cfgVars, entriesOpen, readOpen, ctxCancelled, stop, timeVars, batches,
                 nrecv, addFailed, walVars, rp>>

DispFinalRet ==
  /\ disp.pc = "finalsend"
  /\ Returned(DispT)
  /\ disp' = [disp EXCEPT !.pc = "final"]
  /\ send' = ClearSend(DispT)
  /\ UNCHANGED <<cfgVars, stopVars, timeVars, batches, nrecv, addFailed, sent,
                 walVars, rp>>

(***************************************************************************)
(* Time: the ticker of the max-wait check and the age of the batches.      *)
(***************************************************************************)
\* The dispatcher has a step to take that needs no waiting.
DispReady ==
  \/ disp.pc \in {"tick", "final"}
  \/ disp.pc = "select" /\ (tickPending \/ ~DispChanOpen)
  \/ disp.pc \in {"overflow", "ticksend", "finalsend"} /\ Returned(DispT)

Older(b) == [b EXCEPT !.age = IF @ < AgeCap THEN @ + 1 ELSE @]

TimePass ==
  /\ disp.pc # "done"
  /\ ~cfg.wal
  /\ ~DispReady
  /\ batches' = [t \in DOMAIN batches |-> Older(batches[t])]
  /\ IF tickElapsed + 1 >= MaxWaitCheckFrequency
       THEN tickElapsed' = 0 /\ tickPending' = TRUE
       ELSE tickElapsed' = tickElapsed + 1 /\ UNCHANGED tickPending
  /\ UNCHANGED <<cfgVars, stopVars, disp, nrecv, addFailed, sendVars, walVars, rp>>

(***************************************************************************)
(* Stop and StopNow.                                                       *)
(***************************************************************************)
\* StopNow: c.cancel(), then c.Stop()
StopNowCancel ==
  /\ stop.pc = "idle"
  /\ ctxCancelled' = TRUE
  /\ stop' = [stop EXCEPT !.pc = "close"]
  /\ UNCHANGED <<cfgVars, entriesOpen, readOpen, wgDone, dispVars, timeVars, sendVars,
                 walVars, rp>>

\* Stop: c.once.Do(func() { close(c.entries) })
StopClose ==
  /\ stop.pc \in {"idle", "close"}
  /\ entriesOpen' = FALSE
  /\ stop' = [stop EXCEPT !.pc = "walstop"]
  /\ UNCHANGED <<cfgVars, readOpen, ctxCancelled, wgDone, dispVars, timeVars, sendVars,
                 walVars, rp>>

\* The body of clientWAL.Stop, run by Stop from the position at: stop every
\* registered watcher, close the read channel. The close of a channel that
\* is closed already panics.
StopWALFrom(at) ==
  /\ stop.pc = at
  /\ cons' = [c \in ConsIds |->
                IF c[2] \in DOMAIN watchers /\ watchers[c[2]] = c[3]
                  THEN [cons[c] EXCEPT !.stopped = TRUE] ELSE cons[c]]
  /\ readOpen' = FALSE
  /\ stop' = [stop EXCEPT !.pc = IF readOpen THEN "wait" ELSE "panic"]
  /\ UNCHANGED <<cfgVars, entriesOpen, ctxCancelled, wgDone, dispVars, timeVars, sendVars,
                 writer, walLog, tenantWALs, watchers, rp>>

\* c.wal.Stop()
StopWAL == StopWALFrom("walstop")

\* c.wg.Wait()
StopWait ==
  /\ stop.pc = "wait"
  /\ wgDone
  /\ stop' = [stop EXCEPT !.pc = "returned"]
  /\ UNCHANGED <<cfgVars, entriesOpen, readOpen, ctxCancelled, wgDone, dispVars, timeVars,
                 sendVars, walVars, rp>>


(***************************************************************************)
(* WAL mode: receiveAndWriteToWAL and clientWAL.getWAL.                    *)
(***************************************************************************)
\* getWAL without the lookup in tenantWALs.
NoWALYet(tenant) == FALSE
HasWAL(tenant) == tenant \in tenantWALs

\* The watchers started for a tenant so far.
Started(tenant) == {c \in ConsIds : c[2] = tenant /\ cons[c].started}

\* writeEntryToWAL: the records an entry adds to its tenant's WAL.
writeEntryToWAL(e, ref, withSeries) ==
  (IF withSeries
     THEN <<[kind |-> "series", ref |-> ref, labels |-> e.labels, entries |-> <<>>]>>
     ELSE <<>>)
  \o <<[kind |-> "samples", ref |-> ref, labels |-> e.labels, entries |-> <<e>>]>>

\* for e := range c.entries: an entry is received.
WriterRecv ==
  /\ writer.pc = "recv"
  /\ entriesOpen
  /\ nrecv < MaxEntries
  /\ \E labels \in producers, sz \in 1..MaxLine :
       writer' = [pc |-> "write",
                  e |-> <<processEntry([id |-> nrecv + 1, labels |-> labels, sz |-> sz])>>]
  /\ nrecv' = nrecv + 1
  /\ UNCHANGED <<cfgVars, stopVars, disp, batches, addFailed, timeVars, sendVars,
                 walLog, tenantWALs, watchers, cons, rp>>

\* The body of getWAL and writeEntryToWAL, run by the writer loop from the
\* position at.
WriterWriteFrom(at) ==
  /\ writer.pc = at
  /\ LET e == writer.e[1]
         tenant == getTenantID(e.labels)
     IN
     \E ok \in BOOLEAN, ref \in Refs, withSeries \in BOOLEAN :
     LET written == [walLog EXCEPT ![tenant] = @ \o writeEntryToWAL(e, ref, withSeries)] IN
     IF HasWAL(tenant)
       THEN /\ ok
            /\ walLog' = written
            /\ UNCHANGED <<tenantWALs, watchers, cons>>
       ELSE   IF ok
                THEN \* newWAL, newClientConsumer, NewWALWatcher, watcher.Start()
                     LET c == <<"cons", tenant, Cardinality(Started(tenant)) + 1>> IN
                     /\ c \in ConsIds
                     /\ cons' = [cons EXCEPT ![c].started = TRUE]
                     /\ watchers' = [t \in (DOMAIN watchers) \cup {tenant} |->
                                       IF t = tenant THEN c[3] ELSE watchers[t]]
                     /\ tenantWALs' = tenantWALs \cup {tenant}
                     /\ walLog' = written
                ELSE \* could not start WAL: there is no WAL to write to
                     /\ withSeries
                     /\ UNCHANGED <<walLog, tenantWALs, watchers, cons>>
  /\ writer' = [pc |-> "recv", e |-> <<>>]
  /\ UNCHANGED <<cfgVars, stopVars, dispVars, timeVars, sendVars, rp>>

\* c.wal.getWAL(tenantID), then writeEntryToWAL.
WriterWrite == WriterWriteFrom("write")

\* The range over c.entries ends when the channel is closed.
WriterExit ==
  /\ writer.pc = "recv"
  /\ ~entriesOpen
  /\ writer' = [writer EXCEPT !.pc = "done"]
  /\ UNCHANGED <<cfgVars, stopVars, dispVars, timeVars, sendVars, walLog, tenantWALs,
                 watchers, cons, rp>>

(***************************************************************************)
(* The WAL watcher of a tenant calling its clientConsumer.                 *)
(***************************************************************************)
NoCons == [started |-> FALSE, stopped |-> FALSE, pc |-> "idle", series |-> <<>>,
           currentBatch |-> newBatch, pos |-> 0, seg |-> 0, segEnds |-> <<>>,
           deleted |-> <<>>]

Running(c) == cons[c].started /\ ~cons[c].stopped /\ cons[c].pc = "idle"

RECURSIVE ReplayAll(_, _, _)
ReplayAll(b, es, l) ==
  IF es = <<>> THEN b
  ELSE ReplayAll(replay(b, [Head(es) EXCEPT !.labels = l]), Tail(es), l)

\* The record the watcher of c reads next from the tenant's WAL.
HasNext(c) == cons[c].pos < Len(walLog[c[2]])
NextRecord(c) == walLog[c[2]][cons[c].pos + 1]

\* ConsumeSeries keeping the labels a reference already has.
ConsumeSeriesKeepFirst(c) ==
  /\ Running(c)
  /\ HasNext(c)
  /\ NextRecord(c).kind = "series"
  /\ LET series == NextRecord(c) IN
       cons' = [cons EXCEPT
          ![c].pos = @ + 1,
          ![c].series = [r \in (DOMAIN @) \cup {series.ref} |->
                           IF r \in DOMAIN @ THEN @[r] ELSE series.labels]]
  /\ UNCHANGED <<cfgVars, stopVars, dispVars, timeVars, sendVars, writer, walLog,
                 tenantWALs, watchers, rp>>

\* ConsumeSeries(series)
ConsumeSeries(c) ==
  /\ Running(c)
  /\ HasNext(c)
  /\ NextRecord(c).kind = "series"
  /\ LET series == NextRecord(c) IN
       cons' = [cons EXCEPT
          ![c].pos = @ + 1,
          ![c].series = [r \in (DOMAIN @) \cup {series.ref} |->
                           IF r = series.ref THEN series.labels ELSE @[r]]]
  /\ UNCHANGED <<cfgVars, stopVars, dispVars, timeVars, sendVars, writer, walLog,
                 tenantWALs, watchers, rp>>

\* ConsumeEntries(samples)
ConsumeEntries(c) ==
  /\ Running(c)
  /\ HasNext(c)
  /\ NextRecord(c).kind = "samples"
  /\ LET samples == NextRecord(c) IN
       cons' = [cons EXCEPT
          ![c].pos = @ + 1,
          ![c].currentBatch =
              IF samples.ref \in DOMAIN cons[c].series
                THEN ReplayAll(@, samples.entries, cons[c].series[samples.ref])
                ELSE @]
  /\ UNCHANGED <<cfgVars, stopVars, dispVars, timeVars, sendVars, writer, walLog,
                 tenantWALs, watchers, rp>>

\* The SegmentEnd calls the watchers have made so far.
RECURSIVE SumSegs(_)
SumSegs(S) == IF S = {} THEN 0
              ELSE LET c == CHOOSE x \in S : TRUE IN cons[c].seg + SumSegs(S \ {c})
SegmentsEnded == SumSegs(ConsIds) + Cardinality({c \in ConsIds : cons[c].pc = "segend"})

\* SegmentEnd without the test of the error.
SendAlwaysSucceeded(err) == TRUE

\* Whether SegmentEnd takes the send as acknowledged.
SendSucceeded(err) == err = "nil"

\* SegmentEnd(segmentNum): c.sendBatch(c.currentBatch)
SegmentEnd(c) ==
  /\ Running(c)
  /\ SegmentsEnded < MaxSegments
  /\ SendBatchCall(c, c[2], cons[c].currentBatch)
  /\ cons' = [cons EXCEPT ![c].pc = "segend"]
  /\ UNCHANGED <<cfgVars, stopVars, dispVars, timeVars, writer, walLog, tenantWALs,
                 watchers, rp>>

\* sendBatch has returned in SegmentEnd: delete the segment if no error.
SegmentEndRet(c) ==
  /\ cons[c].pc = "segend"
  /\ Returned(c)
  /\ cons' = [cons EXCEPT
        ![c].pc = "idle",
        ![c].seg = @ + 1,
        ![c].segEnds = Append(@, [seg |-> cons[c].seg, err |-> send[c].err]),
        ![c].deleted = IF SendSucceeded(send[c].err) THEN Append(@, cons[c].seg) ELSE @]
  /\ send' = ClearSend(c)
  /\ UNCHANGED <<cfgVars, stopVars, dispVars, timeVars, sent, writer, walLog, tenantWALs,
                 watchers, rp>>

(***************************************************************************)
(* replayWAL.                                                              *)
(***************************************************************************)
ReplayOff == [pc |-> "off"]

\* What os.Stat and filepath.Glob find under the client's WAL directory.
DirKinds == {"dir", "file", "broken"}
DirNames == <<"a", "b">>
Listings ==
  UNION {[1..n -> DirKinds] : n \in 0..Len(DirNames)}

ReplayStartState(base, kinds) ==
  [pc |-> "start", base |-> base, kinds |-> kinds, dirs |-> <<>>, tenantID |-> "",
   b |-> newBatch, seriesRecs |-> <<>>, nrec |-> 0, left |-> 0, pend |-> <<>>,
   nid |-> 0, known |-> {}, result |-> "none"]

RECURSIVE TenantDirs(_, _)
TenantDirs(kinds, i) ==
  IF i > Len(kinds) THEN <<>>
  ELSE (IF kinds[i] = "dir" THEN <<DirNames[i]>> ELSE <<>>) \o TenantDirs(kinds, i + 1)

\* os.Stat of the base directory, the glob and the scan for tenant directories.
ReplayStart ==
  /\ rp.pc = "start"
  /\ rp' = IF rp.base = "missing"
             THEN [rp EXCEPT !.pc = "returned", !.result = "err"]
           ELSE IF \E i \in DOMAIN rp.kinds : rp.kinds[i] = "broken"
             THEN [rp EXCEPT !.pc = "returned", !.result = "panic"]
           ELSE IF Len(rp.kinds) < 1
             THEN [rp EXCEPT !.pc = "returned", !.result = "nil"]
           ELSE [rp EXCEPT !.pc = "dir", !.dirs = TenantDirs(rp.kinds, 1)]
  /\ UNCHANGED <<cfgVars, stopVars, dispVars, timeVars, sendVars, walVars>>

\* for _, tenantDir := range tenantDirs: wal.NewWalReader
ReplayDir ==
  /\ rp.pc = "dir"
  /\ \E openOK \in BOOLEAN :
       rp' = IF rp.dirs = <<>>
               THEN [rp EXCEPT !.pc = "returned", !.result = "nil"]
             ELSE IF ~openOK
               THEN [rp EXCEPT !.pc = "returned", !.result = "err"]
             ELSE [rp EXCEPT !.pc = "next", !.tenantID = Head(rp.dirs),
                             !.dirs = Tail(rp.dirs), !.b = newBatch,
                             !.seriesRecs = <<>>]
  /\ UNCHANGED <<cfgVars, stopVars, dispVars, timeVars, sendVars, walVars>>

\* for r.Next(): the next record and its series; or the end of the input and
\* the send of what remains.
ReplayNext ==
  /\ rp.pc = "next"
  /\ \/ /\ rp.nrec < MaxRecords
        /\ \E series \in SUBSET Refs, l \in SeriesLabelSets, n \in 0..MaxSamples :
             rp' = [rp EXCEPT
                !.pc = "samples", !.nrec = @ + 1, !.left = n,
                !.seriesRecs = [r \in (DOMAIN @) \cup series |->
                                  IF r \in series THEN l ELSE @[r]]]
        /\ UNCHANGED sendVars
     \/ /\ SendBatchCall(ReplayT, rp.tenantID, rp.b)
        /\ rp' = [rp EXCEPT !.pc = "endsend"]
  /\ UNCHANGED <<cfgVars, stopVars, dispVars, timeVars, walVars>>

\* for _, e := range samples.Entries, up to the break: the batch after the
\* entries that fit, the entry that did not (if any), the entries not visited.
RECURSIVE EntriesLoop(_, _)
EntriesLoop(b, es) ==
  IF es = <<>> THEN [b |-> b, over |-> <<>>, rest |-> <<>>]
  ELSE IF sizeBytesAfter(b, Head(es)) > cfg.batchSize
    THEN [b |-> b, over |-> <<Head(es)>>, rest |-> Tail(es)]
  ELSE EntriesLoop(replay(b, Head(es)), Tail(es))

\* for _, samples := range rec.RefEntries
ReplaySamples ==
  /\ rp.pc = "samples"
  /\ \/ /\ rp.left = 0
        /\ rp' = [rp EXCEPT !.pc = "next"]
        /\ UNCHANGED sendVars
     \/ /\ rp.left > 0
        /\ \E ref \in Refs, k \in 1..MaxSampleEntries : \E sizes \in [1..k -> 1..MaxLine] :
             IF ref \notin DOMAIN rp.seriesRecs
               THEN /\ rp' = [rp EXCEPT !.left = @ - 1]
                    /\ UNCHANGED sendVars
               ELSE LET es == [i \in 1..k |-> [id |-> rp.nid + i,
                                               labels |-> rp.seriesRecs[ref],
                                               sz |-> sizes[i]]]
                        r == EntriesLoop(rp.b, es)
                        seen == [rp EXCEPT !.nid = @ + k,
                                           !.known = @ \cup {rp.nid + i : i \in 1..k}]
                    IN
                    IF r.over = <<>>
                      THEN /\ rp' = [seen EXCEPT !.b = r.b, !.left = @ - 1]
                           /\ UNCHANGED sendVars
                      ELSE /\ SendBatchCall(ReplayT, rp.tenantID, r.b)
                           /\ rp' = [seen EXCEPT !.b = r.b, !.pc = "overflow",
                                                 !.pend = r.over]
  /\ UNCHANGED <<cfgVars, stopVars, dispVars, timeVars, walVars>>

\* sendBatch has returned: the entry opens a new batch, and the loop breaks.
ReplayOverflowRet ==
  /\ rp.pc = "overflow"
  /\ Returned(ReplayT)
  /\ rp' = [rp EXCEPT !.pc = "samples", !.left = @ - 1, !.pend = <<>>,
                      !.b = replay(newBatch, rp.pend[1])]
  /\ send' = ClearSend(ReplayT)
  /\ UNCHANGED <<cfgVars, stopVars, dispVars, timeVars, sent, walVars>>

\* The send at the end of a tenant directory has returned.
ReplayEndRet ==
  /\ rp.pc = "endsend"
  /\ Returned(ReplayT)
  /\ rp' = [rp EXCEPT !.pc = "dir"]
  /\ send' = ClearSend(ReplayT)
  /\ UNCHANGED <<cfgVars, stopVars, dispVars, timeVars, sent, walVars>>

(***************************************************************************)
(* The client, from newClient on.                                          *)
(***************************************************************************)
Init ==
  /\ cfg \in {c \in [wal : BOOLEAN, batchSize : BatchSizes, tenantID : CfgTenantIDs] :
                c.wal => c.batchSize = 3}
  /\ endpoint = {200, 400, 500}
  /\ producers = IF cfg.wal THEN WALEntryLabelSets ELSE EntryLabelSets
  /\ entriesOpen = TRUE
  /\ readOpen = TRUE
  /\ nrecv = 0
  /\ ctxCancelled = FALSE
  /\ stop = [pc |-> "idle"]
  /\ wgDone = FALSE
  /\ disp = [pc |-> "select", cur |-> "", pend |-> <<>>, todo |-> {}, dropped |-> 0]
  /\ batches = <<>>
  /\ tickPending = FALSE
  /\ tickElapsed = 0
  /\ send = [th \in AllThreads |-> NoSend]
  /\ sent = <<>>
  /\ addFailed = FALSE
  /\ writer = [pc |-> IF cfg.wal THEN "recv" ELSE "off", e |-> <<>>]
  /\ walLog = [t \in TenantIDs |-> <<>>]
  /\ tenantWALs = {}
  /\ watchers = <<>>
  /\ cons = [c \in ConsIds |-> NoCons]
  /\ rp = ReplayOff

Next ==
  \/ DispRecv
  \/ DispOverflowRet
  \/ DispTick
  \/ DispTickNext
  \/ DispTickRet
  \/ DispClosed
  \/ DispFinalNext
  \/ DispFinalRet
  \/ TimePass
  \/ StopNowCancel
  \/ StopClose
  \/ StopWAL
  \/ StopWait
  \/ WriterRecv
  \/ WriterWrite
  \/ WriterExit
  \/ \E c \in ConsIds : ConsumeSeries(c)
  \/ \E c \in ConsIds : ConsumeEntries(c)
  \/ \E c \in ConsIds : SegmentEnd(c)
  \/ \E c \in ConsIds : SegmentEndRet(c)
  \/ \E th \in Threads : Encode(th)
  \/ \E th \in Threads : Attempt(th)
  \/ \E th \in Threads : BackoffWait(th)

Spec == Init /\ [][Next]_vars


(***************************************************************************)
(* replayWAL on a client whose loops are not running.                      *)
(***************************************************************************)
InitReplay ==
  /\ cfg \in [wal : {TRUE}, batchSize : BatchSizes, tenantID : CfgTenantIDs]
  /\ endpoint = {200, 400, 500}
  /\ producers = {}
  /\ entriesOpen = TRUE
  /\ readOpen = TRUE
  /\ nrecv = 0
  /\ ctxCancelled = FALSE
  /\ stop = [pc |-> "idle"]
  /\ wgDone = FALSE
  /\ disp = [pc |-> "off", cur |-> "", pend |-> <<>>, todo |-> {}, dropped |-> 0]
  /\ batches = <<>>
  /\ tickPending = FALSE
  /\ tickElapsed = 0
  /\ send = [th \in AllThreads |-> NoSend]
  /\ sent = <<>>
  /\ addFailed = FALSE
  /\ writer = [pc |-> "off", e |-> <<>>]
  /\ walLog = [t \in TenantIDs |-> <<>>]
  /\ tenantWALs = {}
  /\ watchers = <<>>
  /\ cons = [c \in ConsIds |-> NoCons]
  /\ \E base \in {"missing", "present"}, kinds \in Listings :
       /\ base = "missing" => kinds = <<>>
       /\ rp = ReplayStartState(base, kinds)

NextReplay ==
  \/ ReplayStart
  \/ ReplayDir
  \/ ReplayNext
  \/ ReplaySamples
  \/ ReplayOverflowRet
  \/ ReplayEndRet
  \/ Encode(ReplayT)
  \/ Attempt(ReplayT)
  \/ BackoffWait(ReplayT)

SpecReplay == InitReplay /\ [][NextReplay]_vars


(***************************************************************************)
(* One call of sendBatch, against an endpoint that may answer anything,    *)
(* while StopNow may cancel the context.                                   *)
(***************************************************************************)
SendInputs ==
  { <<>>,
    <<[id |-> 1, labels |-> ("job" :> "x"), sz |-> 1]>>,
    <<[id |-> 1, labels |-> ("job" :> "x"), sz |-> 1],
      [id |-> 2, labels |-> ("job" :> "y"), sz |-> 2]>>,
    <<[id |-> 1, labels |-> ("bad-name" :> "x"), sz |-> 1]>> }

InitSend ==
  /\ cfg \in [wal : {FALSE}, batchSize : {3}, tenantID : CfgTenantIDs]
  /\ endpoint = Statuses
  /\ producers = {}
  /\ entriesOpen = TRUE
  /\ readOpen = TRUE
  /\ nrecv = 0
  /\ ctxCancelled = FALSE
  /\ stop = [pc |-> "idle"]
  /\ wgDone = FALSE
  /\ disp = [pc |-> "off", cur |-> "", pend |-> <<>>, todo |-> {}, dropped |-> 0]
  /\ batches = <<>>
  /\ tickPending = FALSE
  /\ tickElapsed = 0
  /\ \E tenantID \in TenantIDs, batch \in SendInputs :
       /\ send = [th \in AllThreads |->
                    IF th = DispT
                      THEN [NoSend EXCEPT !.pc = "encode", !.tenant = tenantID,
                                          !.batch = batch]
                      ELSE NoSend]
       /\ sent = <<[by |-> DispT, tenant |-> tenantID, entries |-> batch]>>
  /\ addFailed = FALSE
  /\ writer = [pc |-> "off", e |-> <<>>]
  /\ walLog = [t \in TenantIDs |-> <<>>]
  /\ tenantWALs = {}
  /\ watchers = <<>>
  /\ cons = [c \in ConsIds |-> NoCons]
  /\ rp = ReplayOff

NextSend ==
  \/ Encode(DispT)
  \/ Attempt(DispT)
  \/ BackoffWait(DispT)
  \/ StopNowCancel

SpecSend == InitSend /\ [][NextSend]_vars


(***************************************************************************)
(* Properties.                                                             *)
(***************************************************************************)
Last(s) == s[Len(s)]

\* The batches handed to sendBatch that hold the entry id.
SentWith(id) == {i \in DOMAIN sent : id \in Ids(sent[i].entries)}

\* The open batch of tenant t is one that was handed to sendBatch.
Flushed(t) ==
  \E i \in DOMAIN sent : sent[i].tenant = t /\ sent[i].entries = batches[t].entries

\* A sendBatch call of th is executing.
InFlight(th) == send[th].pc \in {"encode", "attempt", "backoff"}

\* An attempt that failed in a way the loop retries.
RetryableFailure(status) == SendErr(status) /\ Retryable(status)

\* C1: in direct mode, as long as no batch.add has failed, no received entry
\* is in two batches handed to sendBatch, no batch holds an entry twice, every
\* batch goes to the tenant of its entries; and when Stop has returned every
\* received entry is in exactly one batch handed to sendBatch, no send is
\* outstanding and no open batch is left that was not handed over.
C1_EachEntrySentOnce ==
  (~cfg.wal /\ ~addFailed) =>
    /\ \A id \in 1..nrecv : Cardinality(SentWith(id)) <= 1
    /\ \A i \in DOMAIN sent :
         /\ Cardinality(Ids(sent[i].entries)) = Len(sent[i].entries)
         /\ \A k \in DOMAIN sent[i].entries :
              getTenantID(sent[i].entries[k].labels) = sent[i].tenant
    /\ stop.pc = "returned" =>
         /\ \A id \in 1..nrecv : Cardinality(SentWith(id)) = 1
         /\ \A t \in DOMAIN batches : Flushed(t)
         /\ ~InFlight(DispT)

\* Stop has returned after all the entries were received and went out in
\* two batches or more.
C1_Witness ==
  /\ ~cfg.wal
  /\ ~addFailed
  /\ stop.pc = "returned"
  /\ nrecv = MaxEntries
  /\ Len(sent) >= 2

\* C2: every batch the dispatcher hands to sendBatch has a size of at most the
\* max batch size or holds exactly one entry; the entry that would overflow
\* the open batch is not added to it, and once the old batch was sent it is
\* the first entry of the new open batch of its tenant.
C2_SplitBySize ==
  /\ [](\A i \in DOMAIN sent :
          sent[i].by = DispT =>
            \/ SumSz(sent[i].entries) <= cfg.batchSize
            \/ Len(sent[i].entries) = 1)
  /\ [](disp.pc = "overflow" =>
          disp.pend[1].id \notin Ids(batches[disp.cur].entries))
  /\ [][(disp.pc = "overflow" /\ disp'.pc = "select") =>
          /\ disp.cur \in DOMAIN batches'
          /\ batches'[disp.cur].entries = <<disp.pend[1]>>]_vars

\* C3: in a sendBatch call, every attempt but the last failed in a retryable
\* way, the retry counter counts the retryable failures, a call that ends on
\* a 2xx ends with success, one that ends on a non-retryable failure ends with
\* that error, and one that ends on a retryable failure ends because the
\* backoff is no longer ongoing.
C3_AttemptClassification ==
  LET s == send[DispT] IN
  /\ \A i \in DOMAIN s.resps : i < Len(s.resps) => RetryableFailure(s.resps[i])
  /\ s.retried = Cardinality({i \in DOMAIN s.resps : RetryableFailure(s.resps[i])})
  /\ (s.pc = "ret" /\ s.resps # <<>>) =>
       /\ ~SendErr(Last(s.resps)) => s.err = "nil"
       /\ (SendErr(Last(s.resps)) /\ ~Retryable(Last(s.resps))) => s.err = "http"
       /\ RetryableFailure(Last(s.resps)) =>
            /\ s.err = "http"
            /\ ctxCancelled \/ (MaxRetries # 0 /\ s.numRetries >= MaxRetries)
  /\ (s.pc = "ret" /\ s.resps = <<500, 200>>) => (s.err = "nil" /\ s.retried = 1)
  /\ (s.pc = "ret" /\ s.resps = <<400>>) => (s.err = "http" /\ s.retried = 0)

\* C4: a consumer has asked for the deletion of segment n only for a
\* SegmentEnd(n) whose sendBatch returned no error, once for each such call,
\* and not at all for a call whose sendBatch returned an error or has not
\* returned yet.
C4_DeleteOnlyAfterSuccess ==
  \A c \in ConsIds :
    LET d == cons[c].deleted
        e == cons[c].segEnds
    IN
    /\ \A i \in DOMAIN d : \E j \in DOMAIN e : e[j].seg = d[i] /\ e[j].err = "nil"
    /\ \A j \in DOMAIN e :
         Cardinality({i \in DOMAIN d : d[i] = e[j].seg}) =
           IF e[j].err = "nil" THEN 1 ELSE 0
    /\ cons[c].pc = "segend" => \A i \in DOMAIN d : d[i] # cons[c].seg

\* A consumer has ended two segments, one with a failed send and one with a
\* successful send, and has asked for one deletion.
C4_Witness ==
  \E c \in ConsIds :
    /\ Len(cons[c].segEnds) = 2
    /\ \E j \in DOMAIN cons[c].segEnds : cons[c].segEnds[j].err = "nil"
    /\ \E j \in DOMAIN cons[c].segEnds : cons[c].segEnds[j].err # "nil"
    /\ Len(cons[c].deleted) = 1
    /\ cons[c].currentBatch.entries # <<>>

\* C5: when a SegmentEnd call returns, the consumer's current batch is a new
\* empty batch; and no entry is in the batches of two SegmentEnd sends of a
\* consumer.
C5_FreshBatchAfterSegmentEnd ==
  /\ [][\A c \in ConsIds :
          (cons[c].pc = "segend" /\ cons'[c].pc = "idle") =>
            cons'[c].currentBatch = newBatch]_vars
  /\ [](\A i, j \in DOMAIN sent :
          (i < j /\ sent[i].by \in ConsIds /\ sent[i].by = sent[j].by) =>
            Ids(sent[i].entries) \cap Ids(sent[j].entries) = {})

\* C6: when replayWAL has returned without error, every entry of a sample
\* whose reference was known is in exactly one batch handed to sendBatch, and
\* the batches and the entries in them are in record order.
C6_ReplayLosesNothing ==
  (rp.pc = "returned" /\ rp.result = "nil") =>
    /\ \A id \in rp.known : Cardinality(SentWith(id)) = 1
    /\ \A i \in DOMAIN sent :
         \A k \in DOMAIN sent[i].entries :
           k > 1 => sent[i].entries[k - 1].id < sent[i].entries[k].id
    /\ \A i, j \in DOMAIN sent :
         i < j => \A x \in Ids(sent[i].entries), y \in Ids(sent[j].entries) : x < y

\* C7: replayWAL returns no error and has sent nothing when the base
\* directory does not exist, and when it holds no tenant directory.
C7_NothingToReplay ==
  (rp.pc = "returned" /\ (rp.base = "missing" \/ TenantDirs(rp.kinds, 1) = <<>>)) =>
    (rp.result = "nil" /\ sent = <<>>)

\* C8, as stated: once the context is cancelled no backoff wait is followed
\* by another attempt, every sendBatch call started after the cancel makes
\* exactly one attempt, and StopNow returns as Stop does: the channels closed
\* and the dispatcher done.
C8_StopNow ==
  /\ [][\A th \in Threads :
          (ctxCancelled /\ send[th].pc = "backoff") => send'[th].pc # "attempt"]_vars
  /\ [](\A th \in Threads :
          (send[th].pc = "ret" /\ send[th].startedCancelled) =>
            Len(send[th].resps) = 1)
  /\ [](stop.pc = "returned" =>
          (~entriesOpen /\ ~readOpen /\ wgDone /\ disp.pc = "done"))

\* C8, amended: the same, but a sendBatch call started after the cancel makes
\* exactly one attempt when its batch encodes, and none when it does not.
C8_StopNowEncoded ==
  /\ [][\A th \in Threads :
          (ctxCancelled /\ send[th].pc = "backoff") => send'[th].pc # "attempt"]_vars
  /\ [](\A th \in Threads :
          (send[th].pc = "ret" /\ send[th].startedCancelled) =>
            Len(send[th].resps) = IF send[th].err = "encode" THEN 0 ELSE 1)
  /\ [](stop.pc = "returned" =>
          (~entriesOpen /\ ~readOpen /\ wgDone /\ disp.pc = "done"))

\* After StopNow, the final flush of a batch has made one attempt, which
\* failed with a 500, and has returned.
C8_Witness ==
  /\ ctxCancelled
  /\ disp.pc = "finalsend"
  /\ send[DispT].pc = "ret"
  /\ send[DispT].startedCancelled
  /\ send[DispT].resps = <<500>>
  /\ send[DispT].batch # <<>>

\* C9: in direct mode, an open batch that holds an entry and was not handed
\* to sendBatch is never older than the max wait plus one tick interval.
C9_MaxWaitFlush ==
  ~cfg.wal =>
    \A t \in DOMAIN batches :
      (batches[t].entries # <<>> /\ ~Flushed(t)) =>
        batches[t].age <= BatchWait + MaxWaitCheckFrequency

C11_WriterStopsBeforeWAL ==
  /\ []((cfg.wal /\ stop.pc \in {"wait", "returned"}) => writer.pc # "write")
  /\ [][(cfg.wal /\ stop.pc \in {"wait", "returned"}) =>
          /\ walLog' = walLog
          /\ tenantWALs' = tenantWALs
          /\ watchers' = watchers]_vars

(***************************************************************************)
(* Routing: both modes up to the WAL write, with a static tenant or none,  *)
(* a healthy endpoint and a graceful Stop.                                 *)
(***************************************************************************)
InitRoute ==
  /\ cfg \in [wal : BOOLEAN, batchSize : {3}, tenantID : RouteTenantIDs]
  /\ endpoint = {200}
  /\ producers = EntryLabelSets
  /\ entriesOpen = TRUE
  /\ readOpen = TRUE
  /\ nrecv = 0
  /\ ctxCancelled = FALSE
  /\ stop = [pc |-> "idle"]
  /\ wgDone = FALSE
  /\ disp = [pc |-> "select", cur |-> "", pend |-> <<>>, todo |-> {}, dropped |-> 0]
  /\ batches = <<>>
  /\ tickPending = FALSE
  /\ tickElapsed = 0
  /\ send = [th \in AllThreads |-> NoSend]
  /\ sent = <<>>
  /\ addFailed = FALSE
  /\ writer = [pc |-> IF cfg.wal THEN "recv" ELSE "off", e |-> <<>>]
  /\ walLog = [t \in TenantIDs |-> <<>>]
  /\ tenantWALs = {}
  /\ watchers = <<>>
  /\ cons = [c \in ConsIds |-> NoCons]
  /\ rp = ReplayOff

NextRoute ==
  \/ DispRecv
  \/ DispOverflowRet
  \/ DispTick
  \/ DispTickNext
  \/ DispTickRet
  \/ DispClosed
  \/ DispFinalNext
  \/ DispFinalRet
  \/ TimePass
  \/ StopClose
  \/ StopWAL
  \/ StopWait
  \/ WriterRecv
  \/ WriterWrite
  \/ WriterExit
  \/ Encode(DispT)
  \/ Attempt(DispT)

SpecRoute == InitRoute /\ [][NextRoute]_vars

\* The tenant an entry belongs to: the value of its reserved label, else the
\* static tenant of the configuration (which may be the empty string).
ResolvedTenant(labels) ==
  IF ReservedLabelTenantID \in DOMAIN labels THEN labels[ReservedLabelTenantID]
  ELSE cfg.tenantID

\* The entries carry the external labels.
Merged(es) ==
  \A k \in DOMAIN es : (DOMAIN ExternalLabels) \subseteq (DOMAIN es[k].labels)

\* C12: every entry of an open batch, of a batch handed to sendBatch and of
\* a tenant's WAL carries the external labels and is held under the tenant
\* its labels resolve to: the reserved label's value, else the static tenant,
\* else the empty string.
C12_TenantRouting ==
  /\ \A t \in DOMAIN batches :
       /\ Merged(batches[t].entries)
       /\ \A k \in DOMAIN batches[t].entries :
            ResolvedTenant(batches[t].entries[k].labels) = t
  /\ \A i \in DOMAIN sent :
       \A k \in DOMAIN sent[i].entries :
         ResolvedTenant(sent[i].entries[k].labels) = sent[i].tenant
  /\ \A t \in TenantIDs :
       \A k \in DOMAIN walLog[t] :
         /\ ResolvedTenant(walLog[t][k].labels) = t
         /\ (DOMAIN ExternalLabels) \subseteq (DOMAIN walLog[t][k].labels)
  /\ \A t \in tenantWALs : walLog[t] # <<>>

\* With a static tenant configured, an entry with the reserved label and one
\* without it are in the open batches of two tenants.
C12_Witness ==
  /\ cfg.tenantID = "s"
  /\ "s" \in DOMAIN batches
  /\ "a" \in DOMAIN batches
  /\ batches["s"].entries # <<>>
  /\ batches["a"].entries # <<>>

\* The label sets of the streams the producers feed.
StreamLabels == {Merge(ExternalLabels, l) : l \in EntryLabelSets}

\* The entries of one stream among es, in the order of es.
StreamOf(es, l) == SelectSeq(es, LAMBDA e : e.labels = l)

\* What the dispatcher has handed to sendBatch for tenant t of stream l, from
\* the first batch to batch n.
RECURSIVE TenantStream(_, _, _)
TenantStream(t, l, n) ==
  IF n = 0 THEN <<>>
  ELSE TenantStream(t, l, n - 1) \o
       (IF sent[n].by = DispT /\ sent[n].tenant = t THEN StreamOf(sent[n].entries, l)
        ELSE <<>>)

\* The entries are in the order in which the dispatcher received them.
InReceiveOrder(es) == \A k \in DOMAIN es : k > 1 => es[k - 1].id < es[k].id

\* C13: in direct mode, for every tenant and stream, the entries of the
\* stream in the batches handed to sendBatch, batch after batch, followed by
\* those of the tenant's open batch, are in the order of their reception.
C13_PerTenantOrder ==
  ~cfg.wal =>
    \A t \in TenantIDs, l \in StreamLabels :
      InReceiveOrder(
        TenantStream(t, l, Len(sent)) \o
        (IF t \in DOMAIN batches /\ ~Flushed(t)
           THEN StreamOf(batches[t].entries, l) ELSE <<>>))

\* A tenant's stream went out in two batches, one entry in each.
C13_Witness ==
  /\ ~cfg.wal
  /\ \E i, j \in DOMAIN sent :
       /\ i < j
       /\ sent[i].tenant = sent[j].tenant
       /\ sent[i].entries # <<>>
       /\ sent[j].entries # <<>>
       /\ stop.pc = "returned"

\* C14: a sendBatch call that has returned after a successful encode has
\* updated the sent or the dropped counters exactly once, with the bytes and
\* the entry count of its batch: the sent counters if and only if its last
\* attempt returned 2xx, the dropped counters if and only if it ended in a
\* final failure, and then it returns the error; so encoded bytes are sent
\* bytes plus dropped bytes. A call that is still trying has counted nothing,
\* and one whose encode failed counts nothing at all.
C14_DeliveryAccounting ==
  LET s == send[DispT] IN
  /\ s.pc \in {"encode", "attempt", "backoff"} => s.counted = <<>>
  /\ (s.pc = "ret" /\ s.err = "encode") => (s.counted = <<>> /\ s.encoded = 0)
  /\ (s.pc = "ret" /\ s.err # "encode") =>
       /\ Len(s.counted) = 1
       /\ s.counted[1] \in {Count("sent", s.batch), Count("dropped", s.batch)}
       /\ s.counted[1].kind = "sent" <=> ~SendErr(Last(s.resps))
       /\ s.counted[1].kind = "dropped" <=>
            \/ SendErr(Last(s.resps)) /\ ~Retryable(Last(s.resps))
            \/ RetryableFailure(Last(s.resps)) /\
                 (ctxCancelled \/ (MaxRetries # 0 /\ s.numRetries >= MaxRetries))
       /\ s.counted[1].kind = "dropped" => s.err = "http"
       /\ s.encoded = s.counted[1].bytes

\* A call has returned after using up its retries on a batch of two entries.
C14_Witness ==
  /\ send[DispT].pc = "ret"
  /\ ~ctxCancelled
  /\ Len(send[DispT].batch) = 2
  /\ Len(send[DispT].resps) = MaxRetries
  /\ send[DispT].counted = <<Count("dropped", send[DispT].batch)>>

\* C15: once an add of an arriving entry to a batch has failed, the dispatcher
\* has left its loop (it is flushing the open batches or done) and has counted
\* an entry as dropped.
C15_AddFailureEndsLoop ==
  (~cfg.wal /\ addFailed) =>
    /\ disp.pc \in {"final", "finalsend", "done"}
    /\ disp.dropped >= 1

\* C16: every batch a WAL consumer hands to sendBatch has a size of at most
\* the max batch size or holds exactly one entry.
C16_ConsumerBatchSize ==
  \A i \in DOMAIN sent :
    sent[i].by \in ConsIds =>
      \/ SumSz(sent[i].entries) <= cfg.batchSize
      \/ Len(sent[i].entries) = 1

MaxLog == 3
ConsumeRefs == {1, 2}
ConsumeLabelSets == { ("job" :> "x"), ("job" :> "y") }
C0 == <<"cons", "", 1>>

\* The records a WAL may hold at position k.
RecordsAt(k) ==
  {[kind |-> "series", ref |-> r, labels |-> l, entries |-> <<>>] :
     r \in ConsumeRefs, l \in ConsumeLabelSets}
  \cup
  {[kind |-> "samples", ref |-> r, labels |-> <<>>,
    entries |-> [i \in 1..n |-> [id |-> 10 * k + i, labels |-> <<>>, sz |-> 1]]] :
     r \in ConsumeRefs, n \in 1..2}

Logs ==
  UNION {{log \in [1..n -> UNION {RecordsAt(k) : k \in 1..MaxLog}] :
            \A k \in 1..n : log[k] \in RecordsAt(k)} : n \in 0..MaxLog}

InitConsume ==
  /\ cfg \in [wal : {TRUE}, batchSize : {3}, tenantID : CfgTenantIDs]
  /\ endpoint = {200}
  /\ producers = {}
  /\ entriesOpen = TRUE
  /\ readOpen = TRUE
  /\ nrecv = 0
  /\ ctxCancelled = FALSE
  /\ stop = [pc |-> "idle"]
  /\ wgDone = FALSE
  /\ disp = [pc |-> "off", cur |-> "", pend |-> <<>>, todo |-> {}, dropped |-> 0]
  /\ batches = <<>>
  /\ tickPending = FALSE
  /\ tickElapsed = 0
  /\ send = [th \in AllThreads |-> NoSend]
  /\ sent = <<>>
  /\ addFailed = FALSE
  /\ writer = [pc |-> "off", e |-> <<>>]
  /\ \E log \in Logs : walLog = [t \in TenantIDs |-> IF t = C0[2] THEN log ELSE <<>>]
  /\ tenantWALs = {C0[2]}
  /\ watchers = (C0[2] :> C0[3])
  /\ cons = [c \in ConsIds |-> IF c = C0 THEN [NoCons EXCEPT !.started = TRUE] ELSE NoCons]
  /\ rp = ReplayOff

NextConsume ==
  \/ ConsumeSeries(C0)
  \/ ConsumeEntries(C0)

SpecConsume == InitConsume /\ [][NextConsume]_vars

\* The series records the watcher of c has passed, and among them the last
\* one for a reference.
SeriesRead(c, ref) ==
  {k \in 1..cons[c].pos :
     walLog[c[2]][k].kind = "series" /\ walLog[c[2]][k].ref = ref}
LatestLabels(c, ref) ==
  walLog[c[2]][CHOOSE k \in SeriesRead(c, ref) : \A j \in SeriesRead(c, ref) : j <= k].labels

\* C18: a ConsumeEntries call for a sample whose reference has had no series
\* record leaves the current batch and the reference table as they are; for
\* a known reference it appends all the sample's entries, in order, under the
\* labels of the latest series record of the reference, and leaves the table
\* as it is. Either way the consumer goes on with the next record.
C18_ConsumeEntries ==
  [][\A c \in ConsIds :
       (cons'[c].pos = cons[c].pos + 1 /\ NextRecord(c).kind = "samples") =>
         LET r == NextRecord(c) IN
         /\ cons'[c].series = cons[c].series
         /\ cons'[c].pc = "idle"
         /\ cons'[c].currentBatch.entries =
              cons[c].currentBatch.entries \o
              (IF SeriesRead(c, r.ref) = {} THEN <<>>
               ELSE [i \in DOMAIN r.entries |->
                       [r.entries[i] EXCEPT !.labels = LatestLabels(c, r.ref)]])]_vars

\* The consumer has read two series records of one reference with different
\* labels and then a sample of two entries of that reference, which are in
\* its batch under the later labels.
C18_Witness ==
  /\ cons[C0].pos = 3
  /\ Len(walLog[C0[2]]) = 3
  /\ Cardinality(SeriesRead(C0, 1)) = 2
  /\ Len(cons[C0].currentBatch.entries) = 2
  /\ cons[C0].currentBatch.entries[1].labels = walLog[C0[2]][2].labels
  /\ walLog[C0[2]][1].labels # walLog[C0[2]][2].labels

(***************************************************************************)
(* One call of sendBatch whose steps are each taken in the end: c.send     *)
(* returns within its timeout, backoff.Wait returns when its timer fires   *)
(* or the context is done.                                                 *)
(***************************************************************************)
SpecSendFair ==
  /\ InitSend
  /\ [][NextSend]_vars
  /\ WF_vars(Encode(DispT))
  /\ WF_vars(Attempt(DispT))
  /\ WF_vars(BackoffWait(DispT))

\* C19, as stated: sendBatch returns in the end whatever the endpoint
\* answers, never makes more attempts than the configured maximum, and has
\* made at least one attempt when it returns.
C19_SendBatchTerminates ==
  /\ <>(send[DispT].pc = "ret")
  /\ [](Len(send[DispT].resps) <= MaxRetries)
  /\ [](send[DispT].pc = "ret" => Len(send[DispT].resps) >= 1)

\* C19, amended: the same, but sendBatch has made at least one attempt when
\* its batch encoded, and none when it did not.
C19_SendBatchTerminatesEncoded ==
  /\ <>(send[DispT].pc = "ret")
  /\ [](Len(send[DispT].resps) <= MaxRetries)
  /\ [](send[DispT].pc = "ret" =>
          IF send[DispT].err = "encode" THEN Len(send[DispT].resps) = 0
          ELSE Len(send[DispT].resps) >= 1)

\* sendBatch has returned with an error after as many attempts as the
\* configured maximum, each answered with a retryable failure.
C19_Witness ==
  /\ send[DispT].pc = "ret"
  /\ send[DispT].err = "http"
  /\ Len(send[DispT].resps) = MaxRetries
  /\ \A i \in DOMAIN send[DispT].resps : RetryableFailure(send[DispT].resps[i])
  /\ ~ctxCancelled

(***************************************************************************)
(* The accesses to the tenantWALs and watchers maps, step by step: the     *)
(* writer loop inside getWAL, Stop inside clientWAL.Stop.                  *)
(***************************************************************************)
InitRace == InitRoute /\ cfg.wal

\* The writer loop calls c.wal.getWAL(tenantID): the lookup in tenantWALs.
GetWALEnter ==
  /\ writer.pc = "write"
  /\ writer' = [writer EXCEPT !.pc = "getwal"]
  /\ UNCHANGED <<cfgVars, stopVars, dispVars, timeVars, sendVars, walLog, tenantWALs,
                 watchers, cons, rp>>

\* The rest of getWAL (the inserts into watchers and tenantWALs for a new
\* tenant) and writeEntryToWAL.
GetWALReturn == WriterWriteFrom("getwal")

\* Stop calls c.wal.Stop(): the range over c.watchers begins.
WALStopEnter ==
  /\ stop.pc = "walstop"
  /\ stop' = [stop EXCEPT !.pc = "watchers"]
  /\ UNCHANGED <<cfgVars, entriesOpen, readOpen, ctxCancelled, wgDone, dispVars, timeVars,
                 sendVars, walVars, rp>>

\* The range over c.watchers ends, the read channel is closed.
WALStopReturn == StopWALFrom("watchers")

NextRace ==
  \/ WriterRecv
  \/ GetWALEnter
  \/ GetWALReturn
  \/ WriterExit
  \/ StopClose
  \/ WALStopEnter
  \/ WALStopReturn

SpecRace == InitRace /\ [][NextRace]_vars

\* C20: the writer loop is never inside getWAL while Stop is inside
\* clientWAL.Stop, ranging over the watchers.
C20_SingleOwner == ~(writer.pc = "getwal" /\ stop.pc = "watchers")

(***************************************************************************)
(* Stop or StopNow called again after a call has returned.                 *)
(***************************************************************************)
\* A further call of Stop (now = FALSE) or of StopNow (now = TRUE, which
\* cancels the context first), up to c.once.Do.
StopAgain ==
  /\ stop.pc = "returned"
  /\ \E now \in BOOLEAN : ctxCancelled' = (ctxCancelled \/ now)
  /\ stop' = [stop EXCEPT !.pc = "close"]
  /\ UNCHANGED <<cfgVars, entriesOpen, readOpen, wgDone, dispVars, timeVars, sendVars,
                 walVars, rp>>

NextStopTwice ==
  \/ NextRoute
  \/ StopNowCancel
  \/ StopAgain

SpecStopTwice == InitRoute /\ [][NextStopTwice]_vars

\* C21: no call of Stop or StopNow, whatever calls came before it, closes a
\* channel that is closed already: none ends in a panic instead of returning.
C21_StopIdempotent == stop.pc # "panic"

\* C22: no batch with zero entries is handed to sendBatch, by the
\* dispatcher, by a WAL consumer at SegmentEnd or by replayWAL.
C22_NoEmptyDelivery == \A i \in DOMAIN sent : sent[i].entries # <<>>

====
